---- MODULE Spec2Model ----
(***************************************************************************)
(* Model of crates/egui/src/widgets/plot/axis.rs: the axis configuration   *)
(* (AxisHints), its default tick formatter, the thickness query and the    *)
(* render operation of AxisWidget.                                         *)
(*                                                                         *)
(* Floating point values (f64, f32) are modelled as finite decimal         *)
(* numbers [neg, m, e] denoting (-1)^neg * m * 10^e, kept normalised (m has *)
(* no trailing zero, zero is m = 0, e = 0) so that record equality is      *)
(* numeric equality up to the sign of zero.  Arithmetic on them is exact;  *)
(* NaN and the infinities are outside the model.  Strings are sequences of *)
(* one-character strings.                                                  *)
(***************************************************************************)
EXTENDS Integers, Sequences, FiniteSets, TLC

VARIABLES
    AXIS,           \* the const generic parameter of AxisHints / AxisWidget
    hints,          \* the AxisHints value under construction / in use
    label_called,   \* history: AxisHints::label was called on hints
    placement_arg,  \* history: argument of the last AxisHints::placement call
    thickness_call, \* last call of thickness: [self, ret], or NoCall
    clip_rect,      \* Ui: the clip rectangle of the frame
    widget,         \* the AxisWidget of the frame, or NoWidget
    response,       \* what AxisWidget::ui returned, or NoCall
    shapes,         \* Ui: the shapes added to the painter, in order
    fmt_calls,      \* the formatter invocations made by ui, in order
    fmt_call        \* a direct call of default_formatter: arguments and result

vars == <<AXIS, hints, label_called, placement_arg, thickness_call, clip_rect,
          widget, response, shapes, fmt_calls, fmt_call>>

\* no call was made; no widget was built; Option::None and Option::Some
NoCall == [called |-> FALSE]
NoWidget == [built |-> FALSE]
None == [is_some |-> FALSE]
Some(x) == [is_some |-> TRUE, value |-> x]

(***************************************************************************)
(* Bounds of the model.                                                    *)
(***************************************************************************)
\* largest max_digits given to the builder and to the formatter
MaxDigits == 5
\* largest number of grid marks in a widget's tick list
MaxSteps == 2

(***************************************************************************)
(* Decimal numbers standing for f64 / f32 values.                          *)
(***************************************************************************)
RECURSIVE Pow10(_)
Pow10(n) == IF n = 0 THEN 1 ELSE 10 * Pow10(n - 1)

RECURSIVE NumDigits(_)
NumDigits(m) == IF m < 10 THEN 1 ELSE 1 + NumDigits(m \div 10)

RECURSIVE Digits(_)
Digits(m) == IF m < 10 THEN <<m>> ELSE Append(Digits(m \div 10), m % 10)

Zeros(n) == [i \in 1..n |-> 0]

RECURSIVE StripMantissa(_, _)
StripMantissa(m, e) ==
    IF m = 0 THEN [m |-> 0, e |-> 0]
    ELSE IF m % 10 = 0 THEN StripMantissa(m \div 10, e + 1)
    ELSE [m |-> m, e |-> e]

MkDec(neg, m, e) ==
    LET s == StripMantissa(m, e) IN [neg |-> neg, m |-> s.m, e |-> s.e]

\* the float literal i * 10^e
F(i, e) == MkDec(i < 0, IF i < 0 THEN -i ELSE i, e)

\* f64::abs
abs(a) == [a EXCEPT !.neg = FALSE]

\* unary minus
Negate(a) == [a EXCEPT !.neg = ~a.neg]

\* the decimal exponent of the leading digit of a nonzero number
SciExp(a) == NumDigits(a.m) + a.e - 1

Max(x, y) == IF x >= y THEN x ELSE y
Min(x, y) == IF x <= y THEN x ELSE y

\* |a| < |b|
AbsLt(a, b) ==
    IF b.m = 0 THEN FALSE
    ELSE IF a.m = 0 THEN TRUE
    ELSE IF SciExp(a) # SciExp(b) THEN SciExp(a) < SciExp(b)
    ELSE LET da == NumDigits(a.m)
             db == NumDigits(b.m)
             w  == Max(da, db)
         IN  a.m * Pow10(w - da) < b.m * Pow10(w - db)

\* the float comparisons a < b, a == b, a <= b
Lt(a, b) ==
    IF a.neg /\ ~b.neg THEN a.m # 0 \/ b.m # 0
    ELSE IF ~a.neg /\ b.neg THEN FALSE
    ELSE IF a.neg THEN AbsLt(b, a)
    ELSE AbsLt(a, b)

Eq(a, b) == a.m = b.m /\ a.e = b.e /\ (a.neg = b.neg \/ a.m = 0)

Le(a, b) == Lt(a, b) \/ Eq(a, b)

\* the float operators a * b, a + b, a - b (exact)
Mul(a, b) == MkDec(a.neg # b.neg, a.m * b.m, a.e + b.e)

Add(a, b) ==
    LET lo == Min(a.e, b.e)
        sa == (IF a.neg THEN -1 ELSE 1) * a.m * Pow10(a.e - lo)
        sb == (IF b.neg THEN -1 ELSE 1) * b.m * Pow10(b.e - lo)
        s  == sa + sb
    IN  IF s = 0 THEN MkDec(a.neg /\ b.neg, 0, 0)
        ELSE MkDec(s < 0, IF s < 0 THEN -s ELSE s, lo)

Sub(a, b) == Add(a, Negate(b))

\* a / b for a divisor whose mantissa divides a power of ten (exact)
Div(a, b) ==
    LET k == CHOOSE i \in 0..9 : Pow10(i) % b.m = 0
                                 /\ \A j \in 0..(i - 1) : Pow10(j) % b.m # 0
    IN  MkDec(a.neg # b.neg, a.m * (Pow10(k) \div b.m), a.e - b.e - k)

\* 10.0_f64.powf(x as f64) for an integer x
powf10(x) == F(1, x)


(***************************************************************************)
(* Collaborators of the formatter: emath::round_to_decimals, the cast to   *)
(* isize and the formatting traits of the standard library.                *)
(***************************************************************************)
\* emath::round_to_decimals(value, decimal_places): value rounded to that
\* many decimal places (ties to even); the sign survives a result of zero
round_to_decimals(value, decimal_places) ==
    IF value.e >= -decimal_places THEN value
    ELSE LET k == -decimal_places - value.e IN
         IF k > NumDigits(value.m) THEN MkDec(value.neg, 0, 0)
         ELSE LET p  == Pow10(k)
                  q  == value.m \div p
                  r  == value.m % p
                  up == 2 * r > p \/ (2 * r = p /\ q % 2 = 1)
              IN  MkDec(value.neg, IF up THEN q + 1 ELSE q, -decimal_places)

\* isize::MAX and the magnitude of isize::MIN (64-bit target), as digits
isize_MAX == <<9,2,2,3,3,7,2,0,3,6,8,5,4,7,7,5,8,0,7>>
isize_MIN == <<9,2,2,3,3,7,2,0,3,6,8,5,4,7,7,5,8,0,8>>

\* x < y for two digit sequences without leading zeros
DigitsLt(x, y) ==
    \/ Len(x) < Len(y)
    \/ /\ Len(x) = Len(y)
       /\ \E i \in 1..Len(x) : /\ x[i] < y[i]
                               /\ \A j \in 1..(i - 1) : x[j] = y[j]

\* `tick as isize`: truncation toward zero, saturating at the ends of the
\* range.  The result is an integer [neg, digs] too wide for TLC's integers.
as_isize(a) ==
    LET digs == IF a.e >= 0 THEN Digits(a.m) \o Zeros(a.e)
                ELSE IF -a.e >= NumDigits(a.m) THEN <<0>>
                ELSE Digits(a.m \div Pow10(-a.e))
        neg  == a.neg /\ digs # <<0>>
        lim  == IF neg THEN isize_MIN ELSE isize_MAX
    IN  [neg |-> neg, digs |-> IF DigitsLt(lim, digs) THEN lim ELSE digs]

DigitChars == <<"0", "1", "2", "3", "4", "5", "6", "7", "8", "9">>

DigitStr(digs) == [i \in 1..Len(digs) |-> DigitChars[digs[i] + 1]]

\* Display of a small integer (an exponent)
IntStr(n) == IF n < 0 THEN <<"-">> \o DigitStr(Digits(-n)) ELSE DigitStr(Digits(n))

RECURSIVE StripTrailing(_)
StripTrailing(digs) ==
    IF Len(digs) > 1 /\ digs[Len(digs)] = 0
    THEN StripTrailing(SubSeq(digs, 1, Len(digs) - 1))
    ELSE digs

\* the "{:+e}" output for sign, significant digits and decimal exponent
SignedExp(neg, digs, exp) ==
    (IF neg THEN <<"-">> ELSE <<"+">>)
    \o <<DigitChars[digs[1] + 1]>>
    \o (IF Len(digs) > 1 THEN <<".">> \o DigitStr(Tail(digs)) ELSE <<>>)
    \o <<"e">> \o IntStr(exp)

\* format!("{n:+e}") for n: isize
LowerExp_isize(n) == SignedExp(n.neg, StripTrailing(n.digs), Len(n.digs) - 1)

\* format!("{a:+e}") for a: f64 (shortest digits that round-trip)
LowerExp_f64(a) ==
    IF a.m = 0 THEN SignedExp(a.neg, <<0>>, 0)
    ELSE SignedExp(a.neg, Digits(a.m), SciExp(a))

\* f64::to_string: Display, never with an exponent
to_string(a) ==
    LET digs == Digits(a.m)
        n    == Len(digs)
        k    == -a.e
    IN  (IF a.neg THEN <<"-">> ELSE <<>>)
        \o (IF a.e >= 0 THEN DigitStr(digs \o Zeros(a.e))
            ELSE IF k < n
                 THEN DigitStr(SubSeq(digs, 1, n - k)) \o <<".">>
                      \o DigitStr(SubSeq(digs, n - k + 1, n))
                 ELSE <<"0", ".">> \o DigitStr(Zeros(k - n) \o digs))

(***************************************************************************)
(* AxisHints::default_formatter                                            *)
(***************************************************************************)
\* default_formatter without the test tick != 0.0
default_formatter_zero_untested(tick, max_digits, range) ==
    IF Lt(powf10(max_digits), abs(tick))
    THEN LET tick_rounded == as_isize(tick) IN LowerExp_isize(tick_rounded)
    ELSE LET tick_rounded == round_to_decimals(tick, max_digits) IN
         IF Lt(abs(tick), powf10(-max_digits))
         THEN LowerExp_f64(tick_rounded)
         ELSE to_string(tick_rounded)

default_formatter(tick, max_digits, range) ==
    IF Lt(powf10(max_digits), abs(tick))
    THEN LET tick_rounded == as_isize(tick) IN LowerExp_isize(tick_rounded)
    ELSE LET tick_rounded == round_to_decimals(tick, max_digits) IN
         IF Lt(abs(tick), powf10(-max_digits)) /\ ~Eq(tick, F(0, 0))
         THEN LowerExp_f64(tick_rounded)
         ELSE to_string(tick_rounded)

(***************************************************************************)
(* Types of axis.rs                                                        *)
(***************************************************************************)
X_AXIS == 0
Y_AXIS == 1

VPlacement == {"Top", "Bottom"}
HPlacement == {"Left", "Right"}
Placement  == {"LeftBottom", "RightTop"}

\* impl From<HPlacement> for Placement
From_HPlacement(placement) ==
    CASE placement = "Left"  -> "LeftBottom"
      [] placement = "Right" -> "RightTop"

\* From<VPlacement> with the two arms exchanged
From_VPlacement_exchanged(placement) ==
    CASE placement = "Top"    -> "LeftBottom"
      [] placement = "Bottom" -> "RightTop"

\* impl From<VPlacement> for Placement
From_VPlacement(placement) ==
    CASE placement = "Top"    -> "RightTop"
      [] placement = "Bottom" -> "LeftBottom"

\* the values given to AxisHints::placement: impl Into<Placement>
IntoPlacement ==
    [ty : {"HPlacement"}, v : HPlacement] \cup [ty : {"VPlacement"}, v : VPlacement]

into(placement) ==
    IF placement.ty = "HPlacement" THEN From_HPlacement(placement.v)
    ELSE From_VPlacement(placement.v)

LINE_HEIGHT == 12

\* the labels given to the builder (WidgetText); the first is the empty text
Labels == {<<>>, <<"t", "i", "m", "e">>}

\* a formatter given by the caller (AxisFormatterFn): no label for a negative
\* tick, the unrounded value otherwise
hide_negative(tick, max_digits, range) ==
    IF Lt(tick, F(0, 0)) THEN <<>> ELSE to_string(tick)

Formatters == {"default_formatter", "hide_negative"}

\* the call (self.hints.formatter)(value, digits, &range) through the pointer
call_formatter(formatter, tick, max_digits, range) ==
    IF formatter = "default_formatter" THEN default_formatter(tick, max_digits, range)
    ELSE hide_negative(tick, max_digits, range)

\* the ranges shown on an axis (RangeInclusive<f64>)
Ranges == {[start |-> F(0, 0), end |-> F(0, 0)], [start |-> F(-2, 0), end |-> F(25, 2)]}

\* impl Default for AxisHints
Default_default ==
    [label |-> <<>>, formatter |-> "default_formatter", digits |-> 5,
     placement |-> "LeftBottom"]

\* the rectangles of the frame (Rect): min and max corner
MkRect(x0, y0, x1, y1) ==
    [min |-> [x |-> F(x0, 0), y |-> F(y0, 0)], max |-> [x |-> F(x1, 0), y |-> F(y1, 0)]]

\* Ui::clip_rect of the frame
Screen == MkRect(0, 0, 400, 300)

(***************************************************************************)
(* The default formatter as a function of its inputs: SpecFmt calls it on  *)
(* every tick of FmtTicks with every digit count.                          *)
(***************************************************************************)
FmtMantissas == {1, 4, 6, 12345678}
FmtExponents == {-10, -4, -3, -1, 0, 3, 10, 19}
FmtTicks ==
    {F(s * m, e) : s \in {1, -1}, m \in FmtMantissas, e \in FmtExponents} \cup {F(0, 0)}

InitCommon ==
    /\ hints = Default_default
    /\ label_called = FALSE
    /\ placement_arg = NoCall
    /\ thickness_call = NoCall
    /\ clip_rect = Screen
    /\ widget = NoWidget
    /\ response = NoCall
    /\ shapes = <<>>
    /\ fmt_calls = <<>>

\* the arguments of a call about to be made
InitFmt ==
    /\ AXIS = X_AXIS
    /\ InitCommon
    /\ fmt_call \in [tick : FmtTicks, max_digits : 0..MaxDigits,
                    returned : {FALSE}, ret : {<<>>}]

\* the call default_formatter(tick, max_digits, &range)
Format(range) ==
    /\ ~fmt_call.returned
    /\ fmt_call' = [fmt_call EXCEPT
                      !.returned = TRUE,
                      !.ret = default_formatter(fmt_call.tick, fmt_call.max_digits, range)]
    /\ UNCHANGED <<AXIS, hints, label_called, placement_arg, thickness_call,
                   clip_rect, widget, response, shapes, fmt_calls>>

NextFmt == \E range \in Ranges : Format(range)

SpecFmt == InitFmt /\ [][NextFmt]_vars

(***************************************************************************)
(* The builder of AxisHints and the thickness query: SpecHints.            *)
(***************************************************************************)
\* thickness adding one unit, not one line, for the label of a vertical axis
thickness_one_unit(axis, self) ==
    CASE axis = X_AXIS ->
            IF self.label = <<>> THEN Mul(F(1, 0), F(LINE_HEIGHT, 0))
            ELSE Mul(F(3, 0), F(LINE_HEIGHT, 0))
      [] axis = Y_AXIS ->
            IF self.label = <<>> THEN Mul(F(self.digits, 0), F(LINE_HEIGHT, 0))
            ELSE Add(Mul(F(self.digits, 0), F(LINE_HEIGHT, 0)), F(1, 0))

\* AxisHints::thickness
thickness(axis, self) ==
    CASE axis = X_AXIS ->
            IF self.label = <<>> THEN Mul(F(1, 0), F(LINE_HEIGHT, 0))
            ELSE Mul(F(3, 0), F(LINE_HEIGHT, 0))
      [] axis = Y_AXIS ->
            IF self.label = <<>> THEN Mul(F(self.digits, 0), F(LINE_HEIGHT, 0))
            ELSE Mul(Add(F(self.digits, 0), F(1, 0)), F(LINE_HEIGHT, 0))

InitHints ==
    /\ AXIS \in {X_AXIS, Y_AXIS}
    /\ InitCommon
    /\ fmt_call = NoCall

\* AxisHints::formatter
formatter(fmt) ==
    /\ hints' = [hints EXCEPT !.formatter = fmt]
    /\ UNCHANGED <<AXIS, label_called, placement_arg, thickness_call, clip_rect,
                   widget, response, shapes, fmt_calls, fmt_call>>

\* AxisHints::label
label(l) ==
    /\ hints' = [hints EXCEPT !.label = l]
    /\ label_called' = TRUE
    /\ UNCHANGED <<AXIS, placement_arg, thickness_call, clip_rect,
                   widget, response, shapes, fmt_calls, fmt_call>>

\* AxisHints::max_digits
max_digits(digits) ==
    /\ hints' = [hints EXCEPT !.digits = digits]
    /\ UNCHANGED <<AXIS, label_called, placement_arg, thickness_call, clip_rect,
                   widget, response, shapes, fmt_calls, fmt_call>>

\* AxisHints::placement
placement(p) ==
    /\ hints' = [hints EXCEPT !.placement = into(p)]
    /\ placement_arg' = p
    /\ UNCHANGED <<AXIS, label_called, thickness_call, clip_rect,
                   widget, response, shapes, fmt_calls, fmt_call>>

\* a call of AxisHints::thickness(&self) by the plot
Thickness ==
    /\ thickness_call' = [self |-> hints, ret |-> thickness(AXIS, hints)]
    /\ UNCHANGED <<AXIS, hints, label_called, placement_arg, clip_rect,
                   widget, response, shapes, fmt_calls, fmt_call>>

NextHints ==
    \/ \E fmt \in Formatters : formatter(fmt)
    \/ \E l \in Labels : label(l)
    \/ \E digits \in 0..MaxDigits : max_digits(digits)
    \/ \E p \in IntoPlacement : placement(p)
    \/ Thickness

SpecHints == InitHints /\ [][NextHints]_vars

(***************************************************************************)
(* Collaborators of the render operation: the f32 cast, emath::remap_clamp, *)
(* Rect, text layout, PlotTransform, Ui.                                   *)
(***************************************************************************)
\* `x as f32`: the nearest value with the precision of an f32, here seven
\* significant decimal digits (ties to even)
as_f32(a) ==
    LET n == NumDigits(a.m) IN
    IF n <= 7 THEN a
    ELSE LET p  == Pow10(n - 7)
             q  == a.m \div p
             r  == a.m % p
             up == 2 * r > p \/ (2 * r = p /\ q % 2 = 1)
         IN  MkDec(a.neg, IF up THEN q + 1 ELSE q, a.e + n - 7)

\* emath::lerp(range, t)
lerp(range, t) == Add(Mul(Sub(F(1, 0), t), range.start), Mul(t, range.end))

\* emath::remap_clamp(x, from, to)
RECURSIVE remap_clamp(_, _, _)
remap_clamp(x, from, to) ==
    IF Lt(from.end, from.start)
    THEN remap_clamp(x, [start |-> from.end, end |-> from.start],
                        [start |-> to.end, end |-> to.start])
    ELSE IF Le(x, from.start) THEN to.start
    ELSE IF Le(from.end, x) THEN to.end
    ELSE LET t == Div(Sub(x, from.start), Sub(from.end, from.start)) IN
         IF Le(F(1, 0), t) THEN to.end ELSE lerp(to, t)

\* Rect::center_bottom, left_center, center_top, right_center
Half(a) == Div(a, F(2, 0))
center_bottom(r) == [x |-> Half(Add(r.min.x, r.max.x)), y |-> r.max.y]
center_top(r)    == [x |-> Half(Add(r.min.x, r.max.x)), y |-> r.min.y]
left_center(r)   == [x |-> r.min.x, y |-> Half(Add(r.min.y, r.max.y))]
right_center(r)  == [x |-> r.max.x, y |-> Half(Add(r.min.y, r.max.y))]

\* Galley::size of a laid-out text: one row of glyphs
galley_size(text) == [x |-> F(6 * Len(text), 0), y |-> F(16, 0)]

\* Ui::is_rect_visible: the rectangle has an area and is not clipped away
is_rect_visible(clip, r) ==
    /\ Lt(r.min.x, r.max.x) /\ Lt(r.min.y, r.max.y)
    /\ Lt(r.min.x, clip.max.x) /\ Lt(clip.min.x, r.max.x)
    /\ Lt(r.min.y, clip.max.y) /\ Lt(clip.min.y, r.max.y)

\* Ui::allocate_rect(rect, sense)
allocate_rect(r, sense) == [rect |-> r, sense |-> sense]

\* PlotTransform::dpos_dvalue and PlotTransform::position_from_point
dpos_dvalue(t) == t.dpos_dvalue

position_from_point(t, point) ==
    [x |-> as_f32(Add(t.origin[1], Mul(point.x, t.dpos_dvalue[1]))),
     y |-> as_f32(Add(t.origin[2], Mul(point.y, t.dpos_dvalue[2])))]

\* plot::color_from_strength: the label colour blended by the strength
color_from_strength(strength) == [blend |-> strength]

\* the transforms of the plot (Option<PlotTransform> without None)
Transforms ==
    {[origin |-> <<F(30, 0), F(250, 0)>>, dpos_dvalue |-> <<F(10, 0), F(-20, 0)>>],
     [origin |-> <<F(200, 0), F(8, 0)>>, dpos_dvalue |-> <<F(-15, 0), F(4, 0)>>]}

\* the grid marks of the plot (GridMark)
GridMarks ==
    {[value |-> F(0, 0),    step_size |-> F(1, 0)],
     [value |-> F(3, 0),    step_size |-> F(3, 0)],
     [value |-> F(-15, -1), step_size |-> F(2, 0)],
     [value |-> F(4, -4),   step_size |-> F(100000001, -8)],
     [value |-> F(25, 2),   step_size |-> F(2001, -3)]}

RECURSIVE SeqsUpTo(_, _)
SeqsUpTo(S, n) ==
    IF n = 0 THEN {<<>>}
    ELSE LET shorter == SeqsUpTo(S, n - 1) IN
         shorter \cup {Append(q, x) : q \in {r \in shorter : Len(r) = n - 1}, x \in S}

\* the tick lists of the plot (Arc<Vec<GridMark>>)
StepLists == SeqsUpTo(GridMarks, MaxSteps)

\* the rectangles given to AxisWidget::new: one on the screen, one without
\* area, one outside the clip rectangle
Rects == {MkRect(20, 10, 220, 46), MkRect(50, 50, 50, 50), MkRect(20, 310, 220, 346)}

(***************************************************************************)
(* AxisWidget: new and the render operation, Widget::ui.                   *)
(***************************************************************************)
\* AxisWidget::new
AxisWidget_new(h, r) ==
    [range |-> [start |-> F(0, 0), end |-> F(0, 0)], hints |-> h, rect |-> r,
     transform |-> None, steps |-> <<>>]

MIN_TEXT_SPACING == 20
FULL_CONTRAST_SPACING == 40

\* ui, "add label": the TextShape of the axis title
title_shape(axis, self, resp) ==
    LET text   == self.hints.label
        galley == galley_size(text)
        angle  == IF axis = X_AXIS THEN F(0, 0) ELSE as_f32(Mul(F(-62831855, -7), F(25, -2)))
        text_pos ==
            IF self.hints.placement = "LeftBottom"
            THEN IF axis = X_AXIS
                 THEN LET pos == center_bottom(resp.rect) IN
                      [x |-> Sub(pos.x, Half(galley.x)),
                       y |-> Sub(pos.y, Mul(galley.y, F(125, -2)))]
                 ELSE LET pos == left_center(resp.rect) IN
                      [x |-> pos.x, y |-> Add(pos.y, Half(galley.x))]
            ELSE IF axis = X_AXIS
                 THEN LET pos == center_top(resp.rect) IN
                      [x |-> Sub(pos.x, Half(galley.x)),
                       y |-> Add(pos.y, Mul(galley.y, F(25, -2)))]
                 ELSE LET pos == right_center(resp.rect) IN
                      [x |-> Sub(pos.x, Mul(galley.y, F(15, -1))),
                       y |-> Add(pos.y, Half(galley.x))]
    IN  [shape |-> "TextShape", pos |-> text_pos, galley |-> text,
         underline |-> "NONE", override_text_color |-> "text_color", angle |-> angle]

\* ui: let spacing_in_points = (transform.dpos_dvalue()[AXIS] * step.step_size).abs() as f32
spacing_in_points(axis, transform, step) ==
    as_f32(abs(Mul(dpos_dvalue(transform)[axis + 1], step.step_size)))

\* the skip test with < for <=
too_cramped_strict(spacing) == Lt(spacing, F(MIN_TEXT_SPACING, 0))

\* ui: if spacing_in_points <= MIN_TEXT_SPACING { continue; }
too_cramped(spacing) == Le(spacing, F(MIN_TEXT_SPACING, 0))

\* the strength remapped without the clamp
line_strength_unclamped(spacing) ==
    Div(Sub(spacing, F(MIN_TEXT_SPACING, 0)),
        Sub(F(FULL_CONTRAST_SPACING, 0), F(MIN_TEXT_SPACING, 0)))

\* ui: let line_strength = remap_clamp(spacing_in_points, MIN..=FULL, 0.0..=1.0)
line_strength(spacing) ==
    remap_clamp(spacing,
                [start |-> F(MIN_TEXT_SPACING, 0), end |-> F(FULL_CONTRAST_SPACING, 0)],
                [start |-> F(0, 0), end |-> F(1, 0)])

\* ui: the Shape::galley of one tick label, for a non-empty text with room
tick_shape(axis, self, transform, step, text) ==
    LET strength   == line_strength(spacing_in_points(axis, transform, step))
        line_color == color_from_strength(strength)
        galley     == galley_size(text)
        text_pos ==
            IF axis = X_AXIS
            THEN LET y == IF self.hints.placement = "LeftBottom" THEN self.rect.min.y
                          ELSE Sub(self.rect.max.y, galley.y)
                     projected_point == [x |-> step.value, y |-> F(0, 0)]
                 IN  [x |-> Sub(position_from_point(transform, projected_point).x,
                                Half(galley.x)),
                      y |-> y]
            ELSE LET x == IF self.hints.placement = "LeftBottom"
                          THEN Sub(self.rect.max.x, galley.x)
                          ELSE self.rect.min.x
                     projected_point == [x |-> F(0, 0), y |-> step.value]
                 IN  [x |-> x,
                      y |-> Sub(position_from_point(transform, projected_point).y,
                                Half(galley.y))]
    IN  [shape |-> "galley", pos |-> text_pos, galley |-> text, color |-> line_color]

\* ui, "add ticks": the loop over self.steps from step i on; it gives the
\* shapes added and the formatter calls made
RECURSIVE tick_loop(_, _, _, _)
tick_loop(axis, self, transform, i) ==
    IF i > Len(self.steps) THEN [shapes |-> <<>>, fmt_calls |-> <<>>]
    ELSE LET step == self.steps[i]
             text == call_formatter(self.hints.formatter, step.value,
                                    self.hints.digits, self.range)
             call == [tick |-> step.value, max_digits |-> self.hints.digits,
                      range |-> self.range, ret |-> text]
             rest == tick_loop(axis, self, transform, i + 1)
             drawn == text # <<>>
                      /\ ~too_cramped(spacing_in_points(axis, transform, step))
         IN  [shapes |-> (IF drawn
                          THEN <<tick_shape(axis, self, transform, step, text)>>
                          ELSE <<>>) \o rest.shapes,
              fmt_calls |-> <<call>> \o rest.fmt_calls]

\* ui, "add ticks": nothing without a transform
add_ticks(axis, self) ==
    IF self.transform = None THEN [shapes |-> <<>>, fmt_calls |-> <<>>]
    ELSE tick_loop(axis, self, self.transform.value, 1)

\* the body returning for a missing transform before the title is added
draw_title_after_transform(axis, self, resp) ==
    IF self.transform = None
    THEN [response |-> resp, shapes |-> <<>>, fmt_calls |-> <<>>]
    ELSE LET ticks == add_ticks(axis, self) IN
         [response |-> resp,
          shapes |-> <<title_shape(axis, self, resp)>> \o ticks.shapes,
          fmt_calls |-> ticks.fmt_calls]

\* ui, the body of `if ui.is_rect_visible(response.rect)`
draw(axis, self, resp) ==
    LET ticks == add_ticks(axis, self) IN
    [response |-> resp,
     shapes |-> <<title_shape(axis, self, resp)>> \o ticks.shapes,
     fmt_calls |-> ticks.fmt_calls]

\* ui without the visibility test
ui_visibility_untested(axis, self, clip) ==
    draw(axis, self, allocate_rect(self.rect, "click_and_drag"))

\* impl Widget for AxisWidget: ui(self, ui) -> Response
ui(axis, self, clip) ==
    LET resp == allocate_rect(self.rect, "click_and_drag") IN
    IF is_rect_visible(clip, resp.rect) THEN draw(axis, self, resp)
    ELSE [response |-> resp, shapes |-> <<>>, fmt_calls |-> <<>>]

(***************************************************************************)
(* One frame of an axis: SpecRender.  The plot builds the widget from its  *)
(* hints, sets range, transform and ticks, and adds it to the Ui once.     *)
(***************************************************************************)
\* hints the builder can give; the history matches the calls that give them
InitRender ==
    /\ AXIS \in {X_AXIS, Y_AXIS}
    /\ hints \in [label : Labels, formatter : Formatters, digits : {3, 5},
                  placement : Placement]
    /\ label_called = (hints.label # <<>>)
    /\ placement_arg = IF hints.placement = "LeftBottom" THEN NoCall
                       ELSE [ty |-> "HPlacement", v |-> "Right"]
    /\ thickness_call = NoCall
    /\ clip_rect = Screen
    /\ widget = NoWidget
    /\ response = NoCall
    /\ shapes = <<>>
    /\ fmt_calls = <<>>
    /\ fmt_call = NoCall

\* AxisWidget::new(hints, rect)
New(r) ==
    /\ widget = NoWidget
    /\ widget' = AxisWidget_new(hints, r)
    /\ UNCHANGED <<AXIS, hints, label_called, placement_arg, thickness_call,
                   clip_rect, response, shapes, fmt_calls, fmt_call>>

\* the plot sets the fields range, transform and steps of the widget it built
PlotSetup ==
    /\ widget # NoWidget
    /\ widget = AxisWidget_new(widget.hints, widget.rect)
    /\ response = NoCall
    /\ \E range \in Ranges, transform \in {Some(t) : t \in Transforms} \cup {None},
          steps \in StepLists :
          widget' = [widget EXCEPT !.range = range, !.transform = transform,
                                  !.steps = steps]
    /\ UNCHANGED <<AXIS, hints, label_called, placement_arg, thickness_call,
                   clip_rect, response, shapes, fmt_calls, fmt_call>>

\* ui.add(widget): Widget::ui runs once; widget keeps the value it consumed
Render ==
    /\ widget # NoWidget
    /\ response = NoCall
    /\ \E r \in {ui(AXIS, widget, clip_rect)} :
          /\ response' = r.response
          /\ shapes' = shapes \o r.shapes
          /\ fmt_calls' = fmt_calls \o r.fmt_calls
    /\ UNCHANGED <<AXIS, hints, label_called, placement_arg, thickness_call,
                   clip_rect, widget, fmt_call>>

\* the frame ends: the widget is gone and the painter starts empty
EndFrame ==
    /\ response # NoCall
    /\ widget' = NoWidget
    /\ response' = NoCall
    /\ shapes' = <<>>
    /\ fmt_calls' = <<>>
    /\ UNCHANGED <<AXIS, hints, label_called, placement_arg, thickness_call,
                   clip_rect, fmt_call>>

NextRender ==
    \/ \E r \in Rects : New(r)
    \/ PlotSetup
    \/ Render
    \/ EndFrame

SpecRender == InitRender /\ [][NextRender]_vars

(***************************************************************************)
(* The number a string denotes, for the properties of the formatter: sign, *)
(* significant digits (no leading or trailing zero; none for zero) and the *)
(* power of ten of the last digit.                                         *)
(***************************************************************************)
CharIndex(str, c) ==
    IF \E i \in 1..Len(str) : str[i] = c
    THEN CHOOSE i \in 1..Len(str) : str[i] = c /\ \A j \in 1..(i - 1) : str[j] # c
    ELSE 0

DigitOf(c) == CHOOSE d \in 0..9 : DigitChars[d + 1] = c

RECURSIVE NatOf(_)
NatOf(chars) ==
    IF chars = <<>> THEN 0
    ELSE 10 * NatOf(SubSeq(chars, 1, Len(chars) - 1)) + DigitOf(chars[Len(chars)])

IntOf(chars) == IF chars[1] = "-" THEN -NatOf(Tail(chars)) ELSE NatOf(chars)

RECURSIVE StripLeading(_)
StripLeading(digs) ==
    IF digs # <<>> /\ digs[1] = 0 THEN StripLeading(Tail(digs)) ELSE digs

RECURSIVE Significant(_, _)
Significant(digs, e) ==
    IF digs = <<>> THEN [digs |-> <<>>, e |-> 0]
    ELSE IF digs[Len(digs)] = 0 THEN Significant(SubSeq(digs, 1, Len(digs) - 1), e + 1)
    ELSE [digs |-> digs, e |-> e]

Number(neg, digs, e) ==
    LET s == Significant(StripLeading(digs), e) IN
    [neg |-> neg, digs |-> s.digs, e |-> s.e]

Denotes(str) ==
    LET body == IF str[1] \in {"+", "-"} THEN Tail(str) ELSE str
        ep   == CharIndex(body, "e")
        mant == IF ep = 0 THEN body ELSE SubSeq(body, 1, ep - 1)
        exp  == IF ep = 0 THEN 0 ELSE IntOf(SubSeq(body, ep + 1, Len(body)))
        dp   == CharIndex(mant, ".")
        ip   == IF dp = 0 THEN mant ELSE SubSeq(mant, 1, dp - 1)
        fp   == IF dp = 0 THEN <<>> ELSE SubSeq(mant, dp + 1, Len(mant))
        all  == ip \o fp
    IN  Number(str[1] = "-", [i \in 1..Len(all) |-> DigitOf(all[i])], exp - Len(fp))

\* the number a float value is, and its truncation toward zero to an integer
ValueOf(a) == Number(a.neg, Digits(a.m), a.e)

TruncOf(a) ==
    IF a.e >= 0 THEN ValueOf(a)
    ELSE IF -a.e >= NumDigits(a.m) THEN Number(a.neg, <<>>, 0)
    ELSE Number(a.neg, Digits(a.m \div Pow10(-a.e)), 0)

SameNumber(u, v) == u.digs = v.digs /\ u.e = v.e /\ (u.neg = v.neg \/ u.digs = <<>>)

\* signed scientific notation: a sign, then digits with an exponent
IsSignedSci(str) == str[1] \in {"+", "-"} /\ CharIndex(str, "e") > 0

IsTiny(tick, digits) == Lt(abs(tick), F(1, -digits)) /\ tick.m # 0
IsLarge(tick, digits) == Lt(F(1, digits), abs(tick))

(***************************************************************************)
(* Properties of the default formatter (SpecFmt)                           *)
(***************************************************************************)
\* C1: for every tick with tick != 0 and |tick| < 10^(-max_digits) the
\* default formatter returns the signed scientific notation of the unrounded
\* tick itself, so the string denotes the tick, a nonzero number.
C1_TinyTickKeepsItsValue ==
    (fmt_call.returned /\ IsTiny(fmt_call.tick, fmt_call.max_digits))
        => /\ IsSignedSci(fmt_call.ret)
           /\ SameNumber(Denotes(fmt_call.ret), ValueOf(fmt_call.tick))
           /\ Denotes(fmt_call.ret).digs # <<>>

\* C4: for tick = 0.0 and every max_digits the default formatter returns the
\* plain decimal string "0", never scientific notation.
C4_ZeroIsPlainZero ==
    (fmt_call.returned /\ fmt_call.tick = F(0, 0))
        => fmt_call.ret = <<"0">>

C4_Witness ==
    /\ fmt_call.returned
    /\ fmt_call.tick = F(0, 0)
    /\ fmt_call.max_digits = 3
    /\ fmt_call.ret = <<"0">>

\* C5: the default formatter takes the large-value branch exactly when
\* |tick| > 10^max_digits (|tick| = 10^max_digits is a plain decimal), and
\* there it returns the signed scientific notation of tick truncated toward
\* zero to an integer.
C5_LargeTickIsTruncatedTick ==
    fmt_call.returned
        => /\ IsLarge(fmt_call.tick, fmt_call.max_digits)
                => /\ IsSignedSci(fmt_call.ret)
                   /\ SameNumber(Denotes(fmt_call.ret), TruncOf(fmt_call.tick))
           /\ (~IsLarge(fmt_call.tick, fmt_call.max_digits)
               /\ ~IsTiny(fmt_call.tick, fmt_call.max_digits))
                => CharIndex(fmt_call.ret, "e") = 0
           /\ Eq(abs(fmt_call.tick), F(1, fmt_call.max_digits))
                => /\ CharIndex(fmt_call.ret, "e") = 0
                   /\ SameNumber(Denotes(fmt_call.ret), ValueOf(fmt_call.tick))

(***************************************************************************)
(* Properties of the builder and of thickness (SpecHints)                  *)
(***************************************************************************)
\* C6: with a line height of 12, thickness() returns for the X axis 12 if the
\* label is empty and 36 otherwise, whatever the digits; for the Y axis
\* digits * 12 if the label is empty and (digits + 1) * 12 otherwise (72 for
\* digits = 5); placement and formatter have no influence.
C6_Thickness ==
    thickness_call # NoCall
        => LET self == thickness_call.self
               points ==
                   IF AXIS = X_AXIS THEN (IF self.label = <<>> THEN 12 ELSE 36)
                   ELSE IF self.label = <<>> THEN self.digits * 12
                   ELSE (self.digits + 1) * 12
           IN  thickness_call.ret = F(points, 0)

C6_Witness ==
    /\ thickness_call # NoCall
    /\ AXIS = Y_AXIS
    /\ thickness_call.self.label # <<>>
    /\ thickness_call.self.digits = 5
    /\ thickness_call.self.placement = "RightTop"
    /\ thickness_call.ret = F(72, 0)

\* C7: the label of an AxisHints on which label() was never called is 'x'
\* for an X axis and 'y' for a Y axis.
C7_DefaultLabelNamesAxis ==
    ~label_called => hints.label = (IF AXIS = X_AXIS THEN <<"x">> ELSE <<"y">>)

\* C8: conversion into Placement maps Left to LeftBottom, Right to RightTop,
\* Top to RightTop and Bottom to LeftBottom, every value to one Placement, and
\* placement(p) stores exactly the mapped value in the hints.
C8_PlacementMapping ==
    /\ \A p \in IntoPlacement : into(p) \in Placement
    /\ placement_arg # NoCall
         => hints.placement =
              (CASE placement_arg.v = "Left"   -> "LeftBottom"
                 [] placement_arg.v = "Right"  -> "RightTop"
                 [] placement_arg.v = "Top"    -> "RightTop"
                 [] placement_arg.v = "Bottom" -> "LeftBottom")

C8_Witness ==
    /\ placement_arg = [ty |-> "VPlacement", v |-> "Top"]
    /\ hints.placement = "RightTop"
    /\ label_called

(***************************************************************************)
(* Properties of the render operation (SpecRender)                         *)
(***************************************************************************)
Rendered == response # NoCall
Visible == is_rect_visible(clip_rect, widget.rect)

\* the label text of a tick and its spacing on the screen, as ui reads them
TextOf(step) ==
    call_formatter(widget.hints.formatter, step.value, widget.hints.digits, widget.range)

SpacingOf(step) ==
    as_f32(abs(Mul(widget.transform.value.dpos_dvalue[AXIS + 1], step.step_size)))

HasLabel(step) == TextOf(step) # <<>> /\ Lt(F(20, 0), SpacingOf(step))

\* the ticks with a label, in the order of the tick list
Labelled == SelectSeq(widget.steps, HasLabel)

IsTitle(shape) == shape.shape = "TextShape" /\ shape.galley = widget.hints.label

\* C2: rendering a widget without a transform on a visible rectangle adds
\* exactly the title shape and no tick label, whatever the ticks, the
\* formatter, the axis and the placement are.
C2_NoTransformOnlyTitle ==
    (Rendered /\ Visible /\ widget.transform = None)
        => /\ Len(shapes) = 1
           /\ IsTitle(shapes[1])

C2_Witness ==
    /\ Rendered /\ Visible
    /\ widget.transform = None
    /\ Len(widget.steps) = 2
    /\ widget.hints.formatter = "hide_negative"
    /\ AXIS = Y_AXIS
    /\ Len(shapes) = 1

\* C3: rendering with a transform on a visible rectangle draws a label for a
\* tick if and only if the formatter gives a non-empty string for it and its
\* spacing is strictly greater than 20 (a spacing of exactly 20 is skipped);
\* the labels follow the title, in tick-list order, one per such tick.
C3_LabelIffTextAndRoom ==
    (Rendered /\ Visible /\ widget.transform # None)
        => /\ Len(shapes) = 1 + Len(Labelled)
           /\ IsTitle(shapes[1])
           /\ \A i \in 1..Len(Labelled) :
                 /\ shapes[i + 1].shape = "galley"
                 /\ shapes[i + 1].galley = TextOf(Labelled[i])

C3_Witness ==
    /\ Rendered /\ Visible
    /\ widget.transform # None
    /\ Len(widget.steps) = 2
    /\ TextOf(widget.steps[1]) # <<>>
    /\ SpacingOf(widget.steps[1]) = F(20, 0)
    /\ Lt(F(20, 0), SpacingOf(widget.steps[2]))
    /\ Len(shapes) = 2
    /\ shapes[2].galley = TextOf(widget.steps[2])

StrengthOf(i) == shapes[i + 1].color.blend

C10_StrengthRemapsSpacing ==
    (Rendered /\ Visible /\ widget.transform # None
     /\ Len(shapes) = 1 + Len(Labelled))
        => \A i \in 1..Len(Labelled) :
              LET spacing == SpacingOf(Labelled[i]) IN
              /\ Lt(F(0, 0), StrengthOf(i)) /\ Le(StrengthOf(i), F(1, 0))
              /\ (Lt(F(20, 0), spacing) /\ Lt(spacing, F(40, 0)))
                    => StrengthOf(i) = Mul(Sub(spacing, F(20, 0)), F(5, -2))
              /\ Le(F(40, 0), spacing) => StrengthOf(i) = F(1, 0)
              /\ \A j \in 1..Len(Labelled) :
                    Le(spacing, SpacingOf(Labelled[j]))
                        => Le(StrengthOf(i), StrengthOf(j))

C10_Witness ==
    /\ Rendered /\ Visible
    /\ widget.transform # None
    /\ Len(shapes) = 3
    /\ SpacingOf(Labelled[1]) = F(30, 0)
    /\ StrengthOf(1) = F(5, -1)
    /\ Lt(F(40, 0), SpacingOf(Labelled[2]))
    /\ StrengthOf(2) = F(1, 0)

====
